---- MODULE Spec2Model ----
(***************************************************************************)
(* MatBrief: the auth and article services (gateways) in front of the      *)
(* Supabase client, and the error normalisation they share by design.      *)
(*                                                                         *)
(* Strings are TLA+ strings; JavaScript's String methods used by the       *)
(* services (includes, toLowerCase, trim, length) are computed character   *)
(* by character with SubSeq / Len.                                         *)
(***************************************************************************)
EXTENDS Integers, Sequences, FiniteSets, TLC

(***************************************************************************)
(* Optional values: null / undefined against a present value.              *)
(***************************************************************************)
Null == [some |-> FALSE]
Some(v) == [some |-> TRUE, v |-> v]

(***************************************************************************)
(* String primitives.                                                      *)
(***************************************************************************)
UpperCase == "ABCDEFGHIJKLMNOPQRSTUVWXYZ"
LowerCase == "abcdefghijklmnopqrstuvwxyz"

CharAt(s, i) == SubSeq(s, i, i)

\* Upper-case letter to lower-case letter, and back.
LowerOf == [c \in {CharAt(UpperCase, i) : i \in 1..Len(UpperCase)} |->
              CharAt(LowerCase, CHOOSE i \in 1..Len(UpperCase) : CharAt(UpperCase, i) = c)]
UpperOf == [c \in {CharAt(LowerCase, i) : i \in 1..Len(LowerCase)} |->
              CharAt(UpperCase, CHOOSE i \in 1..Len(LowerCase) : CharAt(LowerCase, i) = c)]

ToLowerChar(c) == IF c \in DOMAIN LowerOf THEN LowerOf[c] ELSE c

ToUpperChar(c) == IF c \in DOMAIN UpperOf THEN UpperOf[c] ELSE c

\* String.prototype.toLowerCase
RECURSIVE toLowerCase(_)
toLowerCase(s) ==
    IF Len(s) = 0 THEN ""
    ELSE ToLowerChar(CharAt(s, 1)) \o toLowerCase(SubSeq(s, 2, Len(s)))

\* String.prototype.toUpperCase (used to build inputs only)
RECURSIVE toUpperCase(_)
toUpperCase(s) ==
    IF Len(s) = 0 THEN ""
    ELSE ToUpperChar(CharAt(s, 1)) \o toUpperCase(SubSeq(s, 2, Len(s)))

IsWhitespace(c) == c \in {" ", "\t", "\n"}

\* String.prototype.trim
RECURSIVE trimStart(_)
trimStart(s) ==
    IF Len(s) = 0 THEN ""
    ELSE IF IsWhitespace(CharAt(s, 1)) THEN trimStart(SubSeq(s, 2, Len(s)))
    ELSE s

RECURSIVE trimEnd(_)
trimEnd(s) ==
    IF Len(s) = 0 THEN ""
    ELSE IF IsWhitespace(CharAt(s, Len(s))) THEN trimEnd(SubSeq(s, 1, Len(s) - 1))
    ELSE s

trim(s) == trimEnd(trimStart(s))

\* String.prototype.includes
includes(s, sub) ==
    \E i \in 0..(Len(s) - Len(sub)) : SubSeq(s, i + 1, i + Len(sub)) = sub

\* All strings over the characters of chars with at most n characters.
RECURSIVE StringsUpTo(_, _)
StringsUpTo(chars, n) ==
    IF n = 0 THEN {""}
    ELSE LET shorter == StringsUpTo(chars, n - 1)
         IN  shorter \cup {s \o c : s \in shorter, c \in chars}

(***************************************************************************)
(* Error normalisation of the auth service.                                *)
(***************************************************************************)
AuthErrorCode ==
    {"invalid_email", "invalid_password", "email_taken", "user_not_found",
     "wrong_password", "too_many_requests", "network_error", "unknown_error"}

\* The conditions of normalizeAuthError's if-chain, on the lower-cased message.
matchesInvalidEmail(msg) ==
    includes(msg, "invalid email") \/ includes(msg, "valid email")

matchesInvalidPassword(msg) ==
    includes(msg, "password")
    /\ (includes(msg, "least") \/ includes(msg, "short") \/ includes(msg, "weak"))

matchesEmailTaken(msg) ==
    includes(msg, "already registered") \/ includes(msg, "already exists")
    \/ includes(msg, "duplicate")

matchesUserNotFound(msg) ==
    includes(msg, "user not found") \/ includes(msg, "no user")

matchesWrongPassword(msg) ==
    includes(msg, "invalid login") \/ includes(msg, "invalid credentials")
    \/ includes(msg, "wrong password")

matchesRateLimit_NoStatus(msg, status) ==
    includes(msg, "rate limit") \/ includes(msg, "too many")

matchesRateLimit(msg, status) ==
    includes(msg, "rate limit") \/ includes(msg, "too many")
    \/ (status.some /\ status.v = 429)

matchesNetwork(msg) ==
    includes(msg, "network") \/ includes(msg, "fetch") \/ includes(msg, "connection")

AuthErr(code, message) == [code |-> code, message |-> message]

\* The final return of normalizeAuthError.
authFallback_Raw(error) == AuthErr("unknown_error", error.message)

authFallback(error) ==
    AuthErr("unknown_error", "Something went wrong. Please try again.")

\* normalizeAuthError with the rate-limit check moved to the front.
normalizeAuthError_RateFirst(error) ==
    LET msg == toLowerCase(error.message) IN
    IF matchesRateLimit(msg, error.status)
    THEN AuthErr("too_many_requests", "Too many attempts. Please wait a moment and try again.")
    ELSE IF matchesInvalidEmail(msg)
    THEN AuthErr("invalid_email", "Please enter a valid email address.")
    ELSE IF matchesInvalidPassword(msg)
    THEN AuthErr("invalid_password", "Password must be at least 6 characters long.")
    ELSE IF matchesEmailTaken(msg)
    THEN AuthErr("email_taken", "An account with this email already exists.")
    ELSE IF matchesUserNotFound(msg)
    THEN AuthErr("user_not_found", "No account found with this email.")
    ELSE IF matchesWrongPassword(msg)
    THEN AuthErr("wrong_password", "Incorrect email or password.")
    ELSE IF matchesNetwork(msg)
    THEN AuthErr("network_error", "Unable to connect. Please check your internet connection.")
    ELSE authFallback(error)

\* error: [message : STRING, status : optional number]
normalizeAuthError(error) ==
    LET msg == toLowerCase(error.message) IN
    IF matchesInvalidEmail(msg)
    THEN AuthErr("invalid_email", "Please enter a valid email address.")
    ELSE IF matchesInvalidPassword(msg)
    THEN AuthErr("invalid_password", "Password must be at least 6 characters long.")
    ELSE IF matchesEmailTaken(msg)
    THEN AuthErr("email_taken", "An account with this email already exists.")
    ELSE IF matchesUserNotFound(msg)
    THEN AuthErr("user_not_found", "No account found with this email.")
    ELSE IF matchesWrongPassword(msg)
    THEN AuthErr("wrong_password", "Incorrect email or password.")
    ELSE IF matchesRateLimit(msg, error.status)
    THEN AuthErr("too_many_requests", "Too many attempts. Please wait a moment and try again.")
    ELSE IF matchesNetwork(msg)
    THEN AuthErr("network_error", "Unable to connect. Please check your internet connection.")
    ELSE authFallback(error)

(***************************************************************************)
(* Error normalisation of the article service.                             *)
(***************************************************************************)
ArticleErrorCode ==
    {"not_found", "permission_denied", "network_error", "unknown_error"}

ArticleErr(code, message) == [code |-> code, message |-> message]

articleFallback_Raw(error) == ArticleErr("unknown_error", error.message)

articleFallback(error) ==
    ArticleErr("unknown_error", "Unable to load articles. Please try again.")

\* normalizeArticleError testing for not_found before permission_denied.
normalizeArticleError_NotFoundFirst(error) ==
    LET msg  == toLowerCase(error.message)
        code == IF error.code.some THEN toLowerCase(error.code.v) ELSE ""
    IN
    IF includes(msg, "not found") \/ code = "pgrst116"
    THEN ArticleErr("not_found", "Article not found.")
    ELSE IF \/ includes(msg, "permission denied")
            \/ includes(msg, "row-level security")
            \/ code = "42501"
            \/ code = "pgrst301"
    THEN ArticleErr("permission_denied", "You do not have permission to view these articles.")
    ELSE IF \/ includes(msg, "network")
            \/ includes(msg, "fetch")
            \/ includes(msg, "connection")
            \/ includes(msg, "timeout")
    THEN ArticleErr("network_error", "Unable to load articles. Please check your internet connection.")
    ELSE articleFallback(error)

\* error: [message : STRING, code : optional STRING]
normalizeArticleError(error) ==
    LET msg  == toLowerCase(error.message)
        code == IF error.code.some THEN toLowerCase(error.code.v) ELSE ""
    IN
    IF \/ includes(msg, "permission denied")
       \/ includes(msg, "row-level security")
       \/ code = "42501"
       \/ code = "pgrst301"
    THEN ArticleErr("permission_denied", "You do not have permission to view these articles.")
    ELSE IF includes(msg, "not found") \/ code = "pgrst116"
    THEN ArticleErr("not_found", "Article not found.")
    ELSE IF \/ includes(msg, "network")
            \/ includes(msg, "fetch")
            \/ includes(msg, "connection")
            \/ includes(msg, "timeout")
    THEN ArticleErr("network_error", "Unable to load articles. Please check your internet connection.")
    ELSE articleFallback(error)

(***************************************************************************)
(* The services: state of one gateway call and of the Supabase client it   *)
(* talks to.  A call runs from "idle" through "awaiting" (suspended at the *)
(* await of the backend promise) to "returned" (its promise resolved with  *)
(* a Result) or "raised" (its promise rejected).                           *)
(***************************************************************************)
VARIABLES
    pc,            \* "idle", "awaiting", "returned", "raised"
    op,            \* the operation called, "none" when idle
    email,         \* the caller's arguments
    password,
    backendCalls,  \* the requests this call has made to the Supabase client
    response,      \* what the Supabase client answered, when it has
    result,        \* the Result the call resolved with, when pc = "returned"
    prev,          \* the last error a call returned: gateway, origin, code, message
    normPc,        \* the normaliser run on its own: "off", "ready", "done"
    normKind,      \* "auth" or "article"
    normErr,       \* its argument
    normOut,       \* its return value
    rnUser,        \* RootNavigator: the user state (undefined, null or a user)
    rnIsLoading,   \* RootNavigator: the isLoading state
    rnCheck,       \* getInitialSession: "pending", "resolved" or "threw"
    rnInitial,     \* the session getSession resolved with, when it has
    rnEvents,      \* how many auth state change events the listener has handled
    rnLastEvent,   \* the last of them: its name and its session
    fsArticles,    \* FeedScreen: the articles state
    fsIsLoading,   \* FeedScreen: the isLoading state
    fsIsRefreshing,  \* FeedScreen: the isRefreshing state
    fsIsSigningOut,  \* FeedScreen: the isSigningOut state
    fsError,       \* FeedScreen: the error state, a message or null
    fsLoad,        \* loadArticles: "unmounted", "awaiting", "done", "rejected"
    fsFetchCalls,  \* how many times the screen has called fetchArticles
    fsLastCompleted,  \* the Result the last completed load got from fetchArticles
    fsSignOut,     \* handleSignOut: "idle", "awaiting", "done", "rejected"
    fsSignOutsInFlight,  \* how many signOut calls of the screen are pending
    fsSignOutResult,  \* the Result the last returned signOut call gave
    fsAlert,       \* the alert on display, when there is one
    lgEmail,       \* LoginScreen: the email state
    lgPassword,    \* LoginScreen: the password state
    lgIsLoading,   \* LoginScreen: the isLoading state
    lgError,       \* LoginScreen: the error state, a message or null
    lgInFlight,    \* how many signIn calls of the screen are pending
    lgCall,        \* the arguments of the screen's last signIn call
    lgOutcome,     \* how that call ended: the Result it returned, or that it threw
    suEmail,       \* SignupScreen: the email state
    suPassword,    \* SignupScreen: the password state
    suConfirmPassword,  \* SignupScreen: the confirmPassword state
    suIsLoading,   \* SignupScreen: the isLoading state
    suError,       \* SignupScreen: the error state, a message or null
    suInFlight,    \* how many signUp calls of the screen are pending
    suSubmitted,   \* the form as it was at the last press of the signup button
    suCall,        \* the arguments of the screen's last signUp call
    suOutcome,     \* how that call ended
    asArticle,     \* ArticleScreen: the article state, an article or null
    asIsLoading,   \* ArticleScreen: the isLoading state
    asError,       \* ArticleScreen: the error state, a message or null
    asInFlight,    \* how many fetchArticleById calls of the screen are pending
    asFetchCalls,  \* the ids the screen has called fetchArticleById with
    asOutcome,     \* how the last completed load's call ended
    asLink,        \* the runs of handleReadFullArticle, one per press, in order
    asLinkCalls,   \* the Linking calls made so far, each with the run that made it
    asAlert        \* the alerts shown so far, each with the run that showed it

gatewayVars == <<pc, op, email, password, backendCalls, response, result, prev>>
normVars == <<normPc, normKind, normErr, normOut>>
rootVars == <<rnUser, rnIsLoading, rnCheck, rnInitial, rnEvents, rnLastEvent>>
fsLoadVars == <<fsArticles, fsIsLoading, fsIsRefreshing, fsError, fsLoad,
                fsFetchCalls, fsLastCompleted>>
fsSignOutVars == <<fsIsSigningOut, fsSignOut, fsSignOutsInFlight, fsSignOutResult, fsAlert>>
feedVars == <<fsLoadVars, fsSignOutVars>>
loginVars == <<lgEmail, lgPassword, lgIsLoading, lgError, lgInFlight, lgCall, lgOutcome>>
signupVars == <<suEmail, suPassword, suConfirmPassword, suIsLoading, suError, suInFlight,
                suSubmitted, suCall, suOutcome>>
asLoadVars == <<asArticle, asIsLoading, asError, asInFlight, asFetchCalls, asOutcome>>
asLinkVars == <<asLink, asLinkCalls, asAlert>>
articleVars == <<asLoadVars, asLinkVars>>
screenVars == <<loginVars, signupVars, articleVars>>
uiVars == <<rootVars, feedVars, screenVars>>
vars == <<gatewayVars, normVars, uiVars>>

\* useState<User | null | undefined>(undefined): a value that is neither a
\* user nor null, and falsy like null.
Undefined == [some |-> FALSE, undefined |-> TRUE]

\* RootNavigator as constructed: its useState initial values, with the mount
\* effect's getSession call under way and the listener subscribed.
RootInit ==
    /\ rnUser = Undefined
    /\ rnIsLoading = TRUE
    /\ rnCheck = "pending"
    /\ rnInitial = Null
    /\ rnEvents = 0
    /\ rnLastEvent = Null

\* LoginScreen as constructed.
LoginInit ==
    /\ lgEmail = ""
    /\ lgPassword = ""
    /\ lgIsLoading = FALSE
    /\ lgError = Null
    /\ lgInFlight = 0
    /\ lgCall = Null
    /\ lgOutcome = Null

\* SignupScreen as constructed.
SignupInit ==
    /\ suEmail = ""
    /\ suPassword = ""
    /\ suConfirmPassword = ""
    /\ suIsLoading = FALSE
    /\ suError = Null
    /\ suInFlight = 0
    /\ suSubmitted = Null
    /\ suCall = Null
    /\ suOutcome = Null

\* ArticleScreen as constructed: its useState initial values, before the
\* mount effect has run.
ArticleInit ==
    /\ asArticle = Null
    /\ asIsLoading = TRUE
    /\ asError = Null
    /\ asInFlight = 0
    /\ asFetchCalls = <<>>
    /\ asOutcome = Null
    /\ asLink = <<>>
    /\ asLinkCalls = <<>>
    /\ asAlert = <<>>

\* FeedScreen as constructed: its useState initial values, before the mount
\* effect has run.
FeedInit ==
    /\ fsArticles = <<>>
    /\ fsIsLoading = TRUE
    /\ fsIsRefreshing = FALSE
    /\ fsIsSigningOut = FALSE
    /\ fsError = Null
    /\ fsLoad = "unmounted"
    /\ fsFetchCalls = 0
    /\ fsLastCompleted = Null
    /\ fsSignOut = "idle"
    /\ fsSignOutsInFlight = 0
    /\ fsSignOutResult = Null
    /\ fsAlert = Null

NoResult == [data |-> Null, error |-> Null]

(***************************************************************************)
(* Inputs.                                                                 *)
(***************************************************************************)
MaxEmailLen == 2
MaxPasswordLen == 7

EmailChars == {"A", "@"}
EmailSamples ==
    {"  TEST@EXAMPLE.COM  ", "Test@Example.COM", "test@example.com", "invalid-email",
     " ", " @ "}
Emails == StringsUpTo(EmailChars, MaxEmailLen) \cup EmailSamples

PasswordSamples == {" ", " Pw0rd ", "Pw 1"}
Passwords == StringsUpTo({"p"}, MaxPasswordLen) \cup PasswordSamples

MockUser == "user-123"

Statuses == {Null, Some(400), Some(429)}

\* Backend auth errors answered to the gateway operations.
GatewayAuthMessages ==
    {"User already registered",
     "duplicate key value violates unique constraint",
     "Invalid login credentials",
     "Rate limit exceeded",
     "Network request failed",
     "FetchError: request failed",
     "Auth session missing!",
     "User not authenticated",
     "JWT Session Expired",
     "Some weird error we never seen",
     "Database error saving new user"}

GatewayAuthErrors ==
    {[message |-> m, status |-> Null] : m \in GatewayAuthMessages}
    \cup {[message |-> m, status |-> Some(429)] :
            m \in {"Rate limit exceeded", "Some weird error we never seen",
                   "User already registered"}}

AuthResolved(error, user) == [kind |-> "resolved", error |-> error, user |-> user]
Rejected(message) == [kind |-> "rejected", thrown |-> message]

AuthResponses ==
    {AuthResolved(Null, u) : u \in {Null, Some(MockUser)}}
    \cup {AuthResolved(Some(e), Null) : e \in GatewayAuthErrors}
    \cup {AuthResolved(Some([message |-> m, status |-> Null]), Some(MockUser)) :
            m \in {"User already registered", "Auth session missing!"}}

\* Rows of the articles table as the backend returns them.
Row1 == [id |-> "1", title |-> "First Article", summary |-> "Summary 1",
         tags |-> Some(<<"tag1", "tag2">>), external_url |-> "https://example.com/1",
         created_at |-> "2024-01-15T10:00:00Z"]
Row2 == [id |-> "2", title |-> "Second Article", summary |-> "Summary 2",
         tags |-> Null, external_url |-> "https://x",
         created_at |-> "2024-01-14T10:00:00Z"]

RowSets == {Null, Some(<<>>), Some(<<Row1>>), Some(<<Row2>>),
            Some(<<Row1, Row2>>), Some(<<Row2, Row1>>)}

GatewayArticleErrors ==
    {[message |-> "Failed to fetch: network error", code |-> Null],
     [message |-> "Request timeout after 30000ms", code |-> Null],
     [message |-> "permission denied for table articles", code |-> Some("42501")],
     [message |-> "new row violates row-level security", code |-> Some("PGRST301")],
     [message |-> "JWT expired", code |-> Some("PGRST301")],
     [message |-> "Relation not found", code |-> Null],
     [message |-> "Something unexpected happened", code |-> Null],
     [message |-> "Some weird error we never seen", code |-> Some("XX000")]}

ArticleResolved(error, data) == [kind |-> "resolved", error |-> error, data |-> data]

ArticleResponses ==
    {ArticleResolved(Null, d) : d \in RowSets}
    \cup {ArticleResolved(Some(e), Null) : e \in GatewayArticleErrors}

ThrownMessages == {"Network request failed"}

(***************************************************************************)
(* Auth service: the synchronous part of each operation before its await,  *)
(* the request it submits, and the part that runs when the await resumes.  *)
(***************************************************************************)
Failure(error) == [data |-> Null, error |-> Some(error)]
Success(value) == [data |-> Some(value), error |-> Null]

\* !email || !email.includes('@')
emailInvalid_EmptyOnly(e) == e = ""

emailInvalid(e) == e = "" \/ ~includes(e, "@")

\* email.trim().toLowerCase()
normalizeEmail_NoTrim(e) == toLowerCase(e)

normalizeEmail(e) == toLowerCase(trim(e))

\* The client-side validation of signUp: the error it returns, or Null.
signUpValidate_LengthFive(e, p) ==
    IF emailInvalid(e)
    THEN Some(AuthErr("invalid_email", "Please enter a valid email address."))
    ELSE IF p = "" \/ Len(p) < 5
    THEN Some(AuthErr("invalid_password", "Password must be at least 6 characters long."))
    ELSE Null

signUpValidate(e, p) ==
    IF emailInvalid(e)
    THEN Some(AuthErr("invalid_email", "Please enter a valid email address."))
    ELSE IF p = "" \/ Len(p) < 6
    THEN Some(AuthErr("invalid_password", "Password must be at least 6 characters long."))
    ELSE Null

signUpRequest(e, p) ==
    [fn |-> "auth.signUp", email |-> normalizeEmail(e), password |-> p]

\* signUp after the await, with both slots filled when the backend sent both.
signUpResume_KeepData(resp) ==
    IF resp.error.some
    THEN [data |-> IF resp.user.some THEN Some([user |-> resp.user]) ELSE Null,
          error |-> Some(normalizeAuthError(resp.error.v))]
    ELSE IF ~resp.user.some
    THEN Failure(AuthErr("unknown_error", "Account created but user data unavailable."))
    ELSE Success([user |-> resp.user])

\* signUp looking at the user before the error.
signUpResume_UserFirst(resp) ==
    IF resp.user.some
    THEN Success([user |-> resp.user])
    ELSE IF resp.error.some
    THEN Failure(normalizeAuthError(resp.error.v))
    ELSE Failure(AuthErr("unknown_error", "Account created but user data unavailable."))

signUpResume(resp) ==
    IF resp.error.some
    THEN Failure(normalizeAuthError(resp.error.v))
    ELSE IF ~resp.user.some
    THEN Failure(AuthErr("unknown_error", "Account created but user data unavailable."))
    ELSE Success([user |-> resp.user])

\* The client-side validation of signIn.
signInValidate_OwnEmailMessage(e, p) ==
    IF emailInvalid(e)
    THEN Some(AuthErr("invalid_email", "Please enter your email."))
    ELSE IF p = ""
    THEN Some(AuthErr("invalid_password", "Please enter your password."))
    ELSE Null

signInValidate_MinLength(e, p) ==
    IF emailInvalid(e)
    THEN Some(AuthErr("invalid_email", "Please enter a valid email address."))
    ELSE IF p = "" \/ Len(p) < 6
    THEN Some(AuthErr("invalid_password", "Please enter your password."))
    ELSE Null

signInValidate(e, p) ==
    IF emailInvalid(e)
    THEN Some(AuthErr("invalid_email", "Please enter a valid email address."))
    ELSE IF p = ""
    THEN Some(AuthErr("invalid_password", "Please enter your password."))
    ELSE Null

signInRequest(e, p) ==
    [fn |-> "auth.signInWithPassword", email |-> normalizeEmail(e), password |-> p]

signInResume(resp) ==
    IF resp.error.some
    THEN Failure(normalizeAuthError(resp.error.v))
    ELSE IF ~resp.user.some
    THEN Failure(AuthErr("unknown_error", "Sign in succeeded but user data unavailable."))
    ELSE Success([user |-> resp.user])

signOutRequest == [fn |-> "auth.signOut"]

\* signOut with getCurrentUser's exemption for a missing session.
signOutResume_SessionExempt(resp) ==
    IF resp.error.some
    THEN IF includes(toLowerCase(resp.error.v.message), "session")
         THEN [data |-> Null, error |-> Null]
         ELSE Failure(normalizeAuthError(resp.error.v))
    ELSE [data |-> Null, error |-> Null]

signOutResume(resp) ==
    IF resp.error.some
    THEN Failure(normalizeAuthError(resp.error.v))
    ELSE [data |-> Null, error |-> Null]

getCurrentUserRequest == [fn |-> "auth.getUser"]

\* getCurrentUser testing the message as the backend spelled it.
getCurrentUserResume_CaseSensitive(resp) ==
    IF resp.error.some
    THEN IF \/ includes(resp.error.v.message, "session")
            \/ includes(resp.error.v.message, "not authenticated")
         THEN Success([user |-> Null])
         ELSE Failure(normalizeAuthError(resp.error.v))
    ELSE Success([user |-> resp.user])

getCurrentUserResume(resp) ==
    IF resp.error.some
    THEN IF \/ includes(toLowerCase(resp.error.v.message), "session")
            \/ includes(toLowerCase(resp.error.v.message), "not authenticated")
         THEN Success([user |-> Null])
         ELSE Failure(normalizeAuthError(resp.error.v))
    ELSE Success([user |-> resp.user])

(***************************************************************************)
(* Article service.                                                        *)
(***************************************************************************)
fetchArticlesRequest_Ascending ==
    [fn |-> "from.select.order", table |-> "articles",
     columns |-> "id, title, summary, tags, external_url, created_at",
     orderBy |-> "created_at", ascending |-> TRUE]

fetchArticlesRequest ==
    [fn |-> "from.select.order", table |-> "articles",
     columns |-> "id, title, summary, tags, external_url, created_at",
     orderBy |-> "created_at", ascending |-> FALSE]

mapRow(row) ==
    [id |-> row.id, title |-> row.title, summary |-> row.summary,
     tags |-> IF row.tags.some THEN row.tags.v ELSE <<>>,
     externalUrl |-> row.external_url, createdAt |-> row.created_at]

\* fetchArticles mapping the rows last to first.
fetchArticlesResume_Reversed(resp) ==
    IF resp.error.some
    THEN Failure(normalizeArticleError(resp.error.v))
    ELSE LET rows == IF resp.data.some THEN resp.data.v ELSE <<>>
         IN  Success([i \in 1..Len(rows) |-> mapRow(rows[Len(rows) + 1 - i])])

\* fetchArticles reporting a null result set as an error.
fetchArticlesResume_NullIsError(resp) ==
    IF resp.error.some
    THEN Failure(normalizeArticleError(resp.error.v))
    ELSE IF ~resp.data.some
    THEN Failure(ArticleErr("not_found", "Article not found."))
    ELSE Success([i \in 1..Len(resp.data.v) |-> mapRow(resp.data.v[i])])

fetchArticlesResume(resp) ==
    IF resp.error.some
    THEN Failure(normalizeArticleError(resp.error.v))
    ELSE LET rows == IF resp.data.some THEN resp.data.v ELSE <<>>
         IN  Success([i \in 1..Len(rows) |-> mapRow(rows[i])])

(***************************************************************************)
(* Gateway calls as a state machine.                                       *)
(***************************************************************************)
Gateway(o) == IF o = "fetchArticles" THEN "articles" ELSE "auth"

NoPrev == [some |-> FALSE]

Init ==
    /\ pc = "idle"
    /\ op = "none"
    /\ email = ""
    /\ password = ""
    /\ backendCalls = <<>>
    /\ response = Null
    /\ result = NoResult
    /\ prev = NoPrev
    /\ normPc = "off"
    /\ normKind = "auth"
    /\ normErr = [message |-> "", status |-> Null]
    /\ normOut = AuthErr("", "")
    /\ RootInit
    /\ FeedInit
    /\ LoginInit
    /\ SignupInit
    /\ ArticleInit

\* Each operation is two steps: the call up to its await (validation, then
\* either an early return or the request to the backend), and the rest of the
\* function once the awaited backend promise has resolved.
SignUpCall(e, p) ==
    /\ pc = "idle"
    /\ op' = "signUp"
    /\ email' = e
    /\ password' = p
    /\ IF signUpValidate(e, p).some
       THEN /\ result' = Failure(signUpValidate(e, p).v)
            /\ backendCalls' = backendCalls
            /\ pc' = "returned"
       ELSE /\ result' = NoResult
            /\ backendCalls' = Append(backendCalls, signUpRequest(e, p))
            /\ pc' = "awaiting"
    /\ UNCHANGED <<response, prev, normVars, uiVars>>

SignUpResume(resp) ==
    /\ pc = "awaiting"
    /\ op = "signUp"
    /\ response' = Some(resp)
    /\ result' = signUpResume(resp)
    /\ pc' = "returned"
    /\ UNCHANGED <<op, email, password, backendCalls, prev, normVars, uiVars>>

SignInCall(e, p) ==
    /\ pc = "idle"
    /\ op' = "signIn"
    /\ email' = e
    /\ password' = p
    /\ IF signInValidate(e, p).some
       THEN /\ result' = Failure(signInValidate(e, p).v)
            /\ backendCalls' = backendCalls
            /\ pc' = "returned"
       ELSE /\ result' = NoResult
            /\ backendCalls' = Append(backendCalls, signInRequest(e, p))
            /\ pc' = "awaiting"
    /\ UNCHANGED <<response, prev, normVars, uiVars>>

SignInResume(resp) ==
    /\ pc = "awaiting"
    /\ op = "signIn"
    /\ response' = Some(resp)
    /\ result' = signInResume(resp)
    /\ pc' = "returned"
    /\ UNCHANGED <<op, email, password, backendCalls, prev, normVars, uiVars>>

SignOutCall ==
    /\ pc = "idle"
    /\ op' = "signOut"
    /\ backendCalls' = Append(backendCalls, signOutRequest)
    /\ pc' = "awaiting"
    /\ UNCHANGED <<email, password, response, result, prev, normVars, uiVars>>

\* signOut asking the backend a second time when it reported an error.
SignOutResume_Retry(resp) ==
    /\ pc = "awaiting"
    /\ op = "signOut"
    /\ response' = Some(resp)
    /\ IF resp.error.some /\ Len(backendCalls) < 2
       THEN /\ backendCalls' = Append(backendCalls, signOutRequest)
            /\ result' = result
            /\ pc' = "awaiting"
       ELSE /\ backendCalls' = backendCalls
            /\ result' = signOutResume(resp)
            /\ pc' = "returned"
    /\ UNCHANGED <<op, email, password, prev, normVars, uiVars>>

SignOutResume(resp) ==
    /\ pc = "awaiting"
    /\ op = "signOut"
    /\ response' = Some(resp)
    /\ result' = signOutResume(resp)
    /\ pc' = "returned"
    /\ UNCHANGED <<op, email, password, backendCalls, prev, normVars, uiVars>>

GetCurrentUserCall ==
    /\ pc = "idle"
    /\ op' = "getCurrentUser"
    /\ backendCalls' = Append(backendCalls, getCurrentUserRequest)
    /\ pc' = "awaiting"
    /\ UNCHANGED <<email, password, response, result, prev, normVars, uiVars>>

GetCurrentUserResume(resp) ==
    /\ pc = "awaiting"
    /\ op = "getCurrentUser"
    /\ response' = Some(resp)
    /\ result' = getCurrentUserResume(resp)
    /\ pc' = "returned"
    /\ UNCHANGED <<op, email, password, backendCalls, prev, normVars, uiVars>>

FetchArticlesCall ==
    /\ pc = "idle"
    /\ op' = "fetchArticles"
    /\ backendCalls' = Append(backendCalls, fetchArticlesRequest)
    /\ pc' = "awaiting"
    /\ UNCHANGED <<email, password, response, result, prev, normVars, uiVars>>

FetchArticlesResume(resp) ==
    /\ pc = "awaiting"
    /\ op = "fetchArticles"
    /\ response' = Some(resp)
    /\ result' = fetchArticlesResume(resp)
    /\ pc' = "returned"
    /\ UNCHANGED <<op, email, password, backendCalls, prev, normVars, uiVars>>

\* The awaited backend promise rejects.  No operation wraps its await in
\* try/catch, so the rejection propagates: the operation's own promise rejects.
AwaitRejects(m) ==
    /\ pc = "awaiting"
    /\ response' = Some(Rejected(m))
    /\ pc' = "raised"
    /\ UNCHANGED <<op, email, password, backendCalls, result, prev, normVars, uiVars>>

\* Whether the call returned an error normalised from a backend error.
ReturnedBackendError ==
    /\ pc = "returned"
    /\ response.some
    /\ response.v.kind = "resolved"
    /\ response.v.error.some
    /\ result.error.some

\* Where a returned error was made: normalised from a backend error
\* ("backend") or written out by the operation itself (the operation's name).
ErrorOrigin == IF ReturnedBackendError THEN "backend" ELSE op

\* The caller has the outcome; the next call starts from scratch.  prev keeps
\* the last error any call returned.
Finish ==
    /\ pc \in {"returned", "raised"}
    /\ prev' = IF pc = "returned" /\ result.error.some
               THEN [some |-> TRUE, gateway |-> Gateway(op), origin |-> ErrorOrigin,
                     raw |-> IF ReturnedBackendError THEN response.v.error.v.message ELSE "",
                     code |-> result.error.v.code, message |-> result.error.v.message]
               ELSE prev
    /\ pc' = "idle"
    /\ op' = "none"
    /\ email' = ""
    /\ password' = ""
    /\ backendCalls' = <<>>
    /\ response' = Null
    /\ result' = NoResult
    /\ UNCHANGED <<normVars, uiVars>>

Next ==
    \/ \E e \in Emails, p \in Passwords : SignUpCall(e, p)
    \/ \E resp \in AuthResponses : SignUpResume(resp)
    \/ \E e \in Emails, p \in Passwords : SignInCall(e, p)
    \/ \E resp \in AuthResponses : SignInResume(resp)
    \/ SignOutCall
    \/ \E resp \in AuthResponses : SignOutResume(resp)
    \/ GetCurrentUserCall
    \/ \E resp \in AuthResponses : GetCurrentUserResume(resp)
    \/ FetchArticlesCall
    \/ \E resp \in ArticleResponses : FetchArticlesResume(resp)
    \/ \E m \in ThrownMessages : AwaitRejects(m)
    \/ Finish

Spec == Init /\ [][Next]_vars

(***************************************************************************)
(* The normalisers on their own, over a larger set of backend errors:      *)
(* the messages of the test suites, every phrase the normalisers look for, *)
(* every pair of phrases in one message, and upper-case variants.          *)
(***************************************************************************)
AuthPhrases ==
    {"invalid email", "valid email", "password", "least", "short", "weak",
     "already registered", "already exists", "duplicate", "user not found",
     "no user", "invalid login", "invalid credentials", "wrong password",
     "rate limit", "too many", "network", "fetch", "connection", "oops"}

AuthTestMessages ==
    {"User already registered",
     "duplicate key value violates unique constraint",
     "Invalid login credentials",
     "Rate limit exceeded",
     "Password should be at least 6 characters",
     "FetchError: request failed",
     "Network request failed",
     "Auth session missing!",
     "User not authenticated",
     "Some weird error we never seen",
     ""}

NormAuthMessages ==
    AuthTestMessages
    \cup {toUpperCase(m) : m \in AuthTestMessages}
    \cup {a \o ": " \o b : a \in AuthPhrases, b \in AuthPhrases}
    \cup {"Error - " \o toUpperCase(a) : a \in AuthPhrases}

NormAuthErrors == [message : NormAuthMessages, status : Statuses]

ArticlePhrases ==
    {"permission denied", "row-level security", "not found", "network", "fetch",
     "connection", "timeout", "oops"}

ArticleTestMessages ==
    {"Failed to fetch: network error",
     "permission denied for table articles",
     "new row violates row-level security",
     "Something unexpected happened",
     "Request timeout after 30000ms",
     ""}

NormArticleMessages ==
    ArticleTestMessages
    \cup {a \o ": " \o b : a \in ArticlePhrases, b \in ArticlePhrases}
    \cup {"Error - " \o toUpperCase(a) : a \in ArticlePhrases}

ArticleBackendCodes ==
    {Null, Some("42501"), Some("PGRST301"), Some("PGRST116"), Some("pgrst116"),
     Some("XX000")}

NormArticleErrors == [message : NormArticleMessages, code : ArticleBackendCodes]

InitNorm ==
    /\ pc = "idle"
    /\ op = "none"
    /\ email = ""
    /\ password = ""
    /\ backendCalls = <<>>
    /\ response = Null
    /\ result = NoResult
    /\ prev = NoPrev
    /\ normPc = "ready"
    /\ \/ normKind = "auth" /\ normErr \in NormAuthErrors
       \/ normKind = "article" /\ normErr \in NormArticleErrors
    /\ normOut = AuthErr("", "")
    /\ RootInit
    /\ FeedInit
    /\ LoginInit
    /\ SignupInit
    /\ ArticleInit

NormalizeAuth ==
    /\ normPc = "ready"
    /\ normKind = "auth"
    /\ normOut' = normalizeAuthError(normErr)
    /\ normPc' = "done"
    /\ UNCHANGED <<normKind, normErr, gatewayVars, uiVars>>

NormalizeArticle ==
    /\ normPc = "ready"
    /\ normKind = "article"
    /\ normOut' = normalizeArticleError(normErr)
    /\ normPc' = "done"
    /\ UNCHANGED <<normKind, normErr, gatewayVars, uiVars>>

NextNorm == NormalizeAuth \/ NormalizeArticle

SpecNorm == InitNorm /\ [][NextNorm]_vars

(***************************************************************************)
(* One call of fetchArticles answered with any of the normaliser's         *)
(* backend errors, so that errors matching several rows of its table reach *)
(* the caller through the whole function.                                  *)
(***************************************************************************)
FetchResponses ==
    ArticleResponses
    \cup {ArticleResolved(Some(e), Null) : e \in NormArticleErrors}

NextFetch ==
    \/ FetchArticlesCall
    \/ \E resp \in FetchResponses : FetchArticlesResume(resp)
    \/ \E m \in ThrownMessages : AwaitRejects(m)

SpecFetch == Init /\ [][NextFetch]_vars

(***************************************************************************)
(* RootNavigator: the component's state, the outcome of the session check  *)
(* its mount effect starts, and the auth state change listener.            *)
(***************************************************************************)
MaxAuthEvents == 3

Users == {"user-123", "user-456"}

\* What getSession and the listener receive: no session, or a session with
\* or without a user.
Sessions ==
    {Null, Some([user |-> Null])} \cup {Some([user |-> Some(u)]) : u \in Users}

AuthEvents == {"SIGNED_IN", "SIGNED_OUT", "TOKEN_REFRESHED", "USER_DELETED"}

\* session?.user ?? null
sessionUser(session) ==
    IF session.some /\ session.v.user.some THEN session.v.user ELSE Null

\* try { ... = await getSession(); setUser(...) } finally { setIsLoading(false) }
GetSessionResolves(session) ==
    /\ rnCheck = "pending"
    /\ rnUser' = sessionUser(session)
    /\ rnIsLoading' = FALSE
    /\ rnCheck' = "resolved"
    /\ rnInitial' = Some(session)
    /\ UNCHANGED <<rnEvents, rnLastEvent, feedVars, screenVars, gatewayVars, normVars>>

\* getInitialSession without its finally block.
GetSessionThrows_NoFinally ==
    /\ rnCheck = "pending"
    /\ rnUser' = Null
    /\ rnCheck' = "threw"
    /\ UNCHANGED <<rnIsLoading, rnInitial, rnEvents, rnLastEvent, feedVars, screenVars, gatewayVars,
                   normVars>>

\* catch { setUser(null) } finally { setIsLoading(false) }
GetSessionThrows ==
    /\ rnCheck = "pending"
    /\ rnUser' = Null
    /\ rnIsLoading' = FALSE
    /\ rnCheck' = "threw"
    /\ UNCHANGED <<rnInitial, rnEvents, rnLastEvent, feedVars, screenVars, gatewayVars, normVars>>

\* The listener with the loading state ended by the first event.
AuthStateChange_EndsLoading(event, session) ==
    /\ rnEvents < MaxAuthEvents
    /\ rnUser' = sessionUser(session)
    /\ rnIsLoading' = FALSE
    /\ rnEvents' = rnEvents + 1
    /\ rnLastEvent' = Some([event |-> event, session |-> session])
    /\ UNCHANGED <<rnCheck, rnInitial, feedVars, screenVars, gatewayVars, normVars>>

\* onAuthStateChange((event, session) => { setUser(session?.user ?? null) })
AuthStateChange(event, session) ==
    /\ rnEvents < MaxAuthEvents
    /\ rnUser' = sessionUser(session)
    /\ rnEvents' = rnEvents + 1
    /\ rnLastEvent' = Some([event |-> event, session |-> session])
    /\ UNCHANGED <<rnIsLoading, rnCheck, rnInitial, feedVars, screenVars, gatewayVars, normVars>>

\* What RootNavigator renders in the current state.
RootRendered ==
    IF rnIsLoading THEN "LoadingScreen"
    ELSE IF rnUser.some THEN "AppNavigator"
    ELSE "AuthNavigator"

NextRoot ==
    \/ \E session \in Sessions : GetSessionResolves(session)
    \/ GetSessionThrows
    \/ \E event \in AuthEvents, session \in Sessions : AuthStateChange(event, session)

SpecRoot == Init /\ [][NextRoot]_vars

\* The promise getSession returned settles, and the event loop then runs the
\* rest of getInitialSession: its try block or its catch block.
GetSessionSettles ==
    \/ \E session \in Sessions : GetSessionResolves(session)
    \/ GetSessionThrows

SpecRootLive == SpecRoot /\ WF_vars(GetSessionSettles)

(***************************************************************************)
(* FeedScreen: the component's state, its loads of the article list and    *)
(* its sign-out.  fetchArticles and signOut are the services above: what   *)
(* they resolve with is what the services return for some backend answer.  *)
(***************************************************************************)
MaxLoads == 3

FetchArticlesResults == {fetchArticlesResume(resp) : resp \in ArticleResponses}

SignOutResults == {signOutResume(resp) : resp \in AuthResponses}

\* isLoading ? renderLoading() : error ? renderError() : <FlatList ... />
FeedRendered ==
    IF fsIsLoading THEN "loading"
    ELSE IF fsError.some /\ fsError.v # "" THEN "error"
    ELSE "list"

\* loadArticles up to its await of fetchArticles.
LoadArticlesStart(showRefreshIndicator) ==
    /\ fsFetchCalls < MaxLoads
    /\ IF showRefreshIndicator
       THEN fsIsRefreshing' = TRUE /\ fsIsLoading' = fsIsLoading
       ELSE fsIsLoading' = TRUE /\ fsIsRefreshing' = fsIsRefreshing
    /\ fsError' = Null
    /\ fsFetchCalls' = fsFetchCalls + 1
    /\ fsLoad' = "awaiting"
    /\ UNCHANGED <<fsArticles, fsLastCompleted, fsSignOutVars>>

\* useEffect(() => { loadArticles(); }, [loadArticles])
MountEffect ==
    /\ fsLoad = "unmounted"
    /\ LoadArticlesStart(FALSE)
    /\ UNCHANGED <<rootVars, screenVars, gatewayVars, normVars>>

\* Pull-to-refresh: the list is on screen and its RefreshControl is at rest.
HandleRefresh ==
    /\ fsLoad \in {"done", "rejected"}
    /\ FeedRendered = "list"
    /\ ~fsIsRefreshing
    /\ LoadArticlesStart(TRUE)
    /\ UNCHANGED <<rootVars, screenVars, gatewayVars, normVars>>

\* Try Again: the button is part of the error view.
TryAgain ==
    /\ fsLoad \in {"done", "rejected"}
    /\ FeedRendered = "error"
    /\ LoadArticlesStart(FALSE)
    /\ UNCHANGED <<rootVars, screenVars, gatewayVars, normVars>>

\* loadArticles from the point where its await of fetchArticles resumes.
LoadArticlesResume(res) ==
    /\ fsLoad = "awaiting"
    /\ IF res.error.some
       THEN fsError' = Some(res.error.v.message) /\ fsArticles' = <<>>
       ELSE fsError' = fsError /\ fsArticles' = res.data.v
    /\ fsIsLoading' = FALSE
    /\ fsIsRefreshing' = FALSE
    /\ fsLoad' = "done"
    /\ fsLastCompleted' = Some(res)
    /\ UNCHANGED <<fsFetchCalls, fsSignOutVars, rootVars, screenVars, gatewayVars, normVars>>

\* fetchArticles rejects.  loadArticles has no try/catch: it ends there, with
\* an unhandled rejection, and sets no state.
LoadArticlesRejects(m) ==
    /\ fsLoad = "awaiting"
    /\ fsLoad' = "rejected"
    /\ UNCHANGED <<fsArticles, fsIsLoading, fsIsRefreshing, fsError, fsFetchCalls,
                   fsLastCompleted, fsSignOutVars, rootVars, screenVars, gatewayVars, normVars>>

\* handleSignOut with a button that takes presses while a call is pending.
HandleSignOut_AlwaysEnabled ==
    /\ fsLoad # "unmounted"
    /\ fsSignOutsInFlight < 2
    /\ fsIsSigningOut' = TRUE
    /\ fsSignOut' = "awaiting"
    /\ fsSignOutsInFlight' = fsSignOutsInFlight + 1
    /\ UNCHANGED <<fsSignOutResult, fsAlert, fsLoadVars, rootVars, screenVars, gatewayVars, normVars>>

\* handleSignOut up to its await of signOut; the button is disabled while
\* isSigningOut is set.
HandleSignOut ==
    /\ fsLoad # "unmounted"
    /\ ~fsIsSigningOut
    /\ fsIsSigningOut' = TRUE
    /\ fsSignOut' = "awaiting"
    /\ fsSignOutsInFlight' = fsSignOutsInFlight + 1
    /\ UNCHANGED <<fsSignOutResult, fsAlert, fsLoadVars, rootVars, screenVars, gatewayVars, normVars>>

\* handleSignOut from the point where its await of signOut resumes.
SignOutReturns(res) ==
    /\ fsSignOutsInFlight > 0
    /\ IF res.error.some
       THEN /\ fsIsSigningOut' = FALSE
            /\ fsAlert' = Some([title |-> "Sign Out Failed",
                                message |-> res.error.v.message,
                                buttons |-> <<"OK">>])
       ELSE /\ fsIsSigningOut' = fsIsSigningOut
            /\ fsAlert' = fsAlert
    /\ fsSignOut' = "done"
    /\ fsSignOutsInFlight' = fsSignOutsInFlight - 1
    /\ fsSignOutResult' = Some(res)
    /\ UNCHANGED <<fsLoadVars, rootVars, screenVars, gatewayVars, normVars>>

\* signOut rejects.  handleSignOut has no try/catch either.
SignOutRejects(m) ==
    /\ fsSignOutsInFlight > 0
    /\ fsSignOut' = "rejected"
    /\ fsSignOutsInFlight' = fsSignOutsInFlight - 1
    /\ UNCHANGED <<fsIsSigningOut, fsSignOutResult, fsAlert, fsLoadVars,
                   rootVars, screenVars, gatewayVars, normVars>>

\* The alert's OK button.
DismissAlert ==
    /\ fsAlert.some
    /\ fsAlert' = Null
    /\ UNCHANGED <<fsIsSigningOut, fsSignOut, fsSignOutsInFlight, fsSignOutResult,
                   fsLoadVars, rootVars, screenVars, gatewayVars, normVars>>

NextFeed ==
    \/ MountEffect
    \/ HandleRefresh
    \/ TryAgain
    \/ \E res \in FetchArticlesResults : LoadArticlesResume(res)
    \/ \E m \in ThrownMessages : LoadArticlesRejects(m)
    \/ HandleSignOut
    \/ \E res \in SignOutResults : SignOutReturns(res)
    \/ \E m \in ThrownMessages : SignOutRejects(m)
    \/ DismissAlert

SpecFeed == Init /\ [][NextFeed]_vars

(***************************************************************************)
(* LoginScreen: the form's inputs, the login button and handleLogin, which *)
(* is split at its await of signIn.                                        *)
(***************************************************************************)
\* What the user types into the two inputs.
LoginEmails == {"", " ", "invalid-email", "test@example.com", " Test@Example.com "}
LoginPasswords == {"", " ", "password123"}

CallReturned(res) == [kind |-> "returned", result |-> res]
CallThrew(m) == [kind |-> "threw", thrown |-> m]

\* The ways a signIn(e, p) call can end: the Result of its own validation,
\* the Result it builds from a backend response, or the backend's rejection
\* passing through it.
SignInOutcomes(e, p) ==
    IF signInValidate(e, p).some
    THEN {CallReturned(Failure(signInValidate(e, p).v))}
    ELSE {CallReturned(signInResume(resp)) : resp \in AuthResponses}
         \cup {CallThrew(m) : m \in ThrownMessages}

UnableToConnect == "Unable to connect. Please check your internet connection."

\* const isButtonDisabled = isLoading || !email.trim() || !password
LoginButtonDisabled == lgIsLoading \/ trim(lgEmail) = "" \/ lgPassword = ""

\* onChangeText={setEmail}, on an input that is editable={!isLoading}
LoginSetEmail(e) ==
    /\ ~lgIsLoading
    /\ e # lgEmail
    /\ lgEmail' = e
    /\ UNCHANGED <<lgPassword, lgIsLoading, lgError, lgInFlight, lgCall, lgOutcome,
                   signupVars, articleVars, rootVars, feedVars, gatewayVars, normVars>>

LoginSetPassword(p) ==
    /\ ~lgIsLoading
    /\ p # lgPassword
    /\ lgPassword' = p
    /\ UNCHANGED <<lgEmail, lgIsLoading, lgError, lgInFlight, lgCall, lgOutcome,
                   signupVars, articleVars, rootVars, feedVars, gatewayVars, normVars>>

\* A press of the login button: handleLogin up to its await.
HandleLogin ==
    /\ ~LoginButtonDisabled
    /\ lgError' = Null
    /\ lgIsLoading' = TRUE
    /\ lgInFlight' = lgInFlight + 1
    /\ lgCall' = Some([email |-> lgEmail, password |-> lgPassword])
    /\ lgOutcome' = Null
    /\ UNCHANGED <<lgEmail, lgPassword,
                   signupVars, articleVars, rootVars, feedVars, gatewayVars, normVars>>

\* handleLogin after the await, when signIn returned a Result.
SignInReturns(res) ==
    /\ lgInFlight > 0
    /\ CallReturned(res) \in SignInOutcomes(lgCall.v.email, lgCall.v.password)
    /\ lgError' = IF res.error.some THEN Some(res.error.v.message) ELSE lgError
    /\ lgIsLoading' = FALSE
    /\ lgInFlight' = lgInFlight - 1
    /\ lgOutcome' = Some(CallReturned(res))
    /\ UNCHANGED <<lgEmail, lgPassword, lgCall,
                   signupVars, articleVars, rootVars, feedVars, gatewayVars, normVars>>

\* handleLogin when signIn threw, without its catch and finally blocks.
SignInRejects_NoCatch(m) ==
    /\ lgInFlight > 0
    /\ CallThrew(m) \in SignInOutcomes(lgCall.v.email, lgCall.v.password)
    /\ lgInFlight' = lgInFlight - 1
    /\ lgOutcome' = Some(CallThrew(m))
    /\ UNCHANGED <<lgEmail, lgPassword, lgCall, lgError, lgIsLoading,
                   signupVars, articleVars, rootVars, feedVars, gatewayVars, normVars>>

\* handleLogin when signIn threw: the catch block, then the finally block.
SignInRejects(m) ==
    /\ lgInFlight > 0
    /\ CallThrew(m) \in SignInOutcomes(lgCall.v.email, lgCall.v.password)
    /\ lgError' = Some(UnableToConnect)
    /\ lgIsLoading' = FALSE
    /\ lgInFlight' = lgInFlight - 1
    /\ lgOutcome' = Some(CallThrew(m))
    /\ UNCHANGED <<lgEmail, lgPassword, lgCall,
                   signupVars, articleVars, rootVars, feedVars, gatewayVars, normVars>>

SignInResults ==
    UNION {{o.result : o \in {x \in SignInOutcomes(e, p) : x.kind = "returned"}} :
             e \in LoginEmails, p \in LoginPasswords}

NextLogin ==
    \/ \E e \in LoginEmails : LoginSetEmail(e)
    \/ \E p \in LoginPasswords : LoginSetPassword(p)
    \/ HandleLogin
    \/ \E res \in SignInResults : SignInReturns(res)
    \/ \E m \in ThrownMessages : SignInRejects(m)

SpecLogin == Init /\ [][NextLogin]_vars

(***************************************************************************)
(* SignupScreen: the form's inputs, validateForm, the signup button and    *)
(* handleSignup, which is split at its await of signUp.                    *)
(***************************************************************************)
MIN_PASSWORD_LENGTH == 6

\* What the user types into the three inputs.
SignupEmails == {"", "invalid-email", " @ ", "new@example.com"}
SignupPasswords == {"", "12345", "123456", "password123"}

\* validateForm with the confirmation rule ahead of the length rule.
validateForm_ConfirmFirst(e, p, c) ==
    IF trim(e) = "" \/ ~includes(e, "@")
    THEN Some("Please enter a valid email address.")
    ELSE IF p # c
    THEN Some("Passwords do not match.")
    ELSE IF Len(p) < MIN_PASSWORD_LENGTH
    THEN Some("Password must be at least " \o ToString(MIN_PASSWORD_LENGTH) \o " characters.")
    ELSE Null

\* validateForm without its password length rule.
validateForm_NoLengthRule(e, p, c) ==
    IF trim(e) = "" \/ ~includes(e, "@")
    THEN Some("Please enter a valid email address.")
    ELSE IF p # c
    THEN Some("Passwords do not match.")
    ELSE Null

\* validateForm: the message of the first rule that fails, or null.
validateForm(e, p, c) ==
    IF trim(e) = "" \/ ~includes(e, "@")
    THEN Some("Please enter a valid email address.")
    ELSE IF Len(p) < MIN_PASSWORD_LENGTH
    THEN Some("Password must be at least " \o ToString(MIN_PASSWORD_LENGTH) \o " characters.")
    ELSE IF p # c
    THEN Some("Passwords do not match.")
    ELSE Null

\* What the backend answers to a signUp request: the responses of the
\* gateway model and the backend's own refusal of the email address.
SignupResponses ==
    AuthResponses
    \cup {AuthResolved(Some([message |-> "Invalid email address",
                             status |-> Some(400)]), Null)}

\* The ways a signUp(e, p) call can end.
SignUpOutcomes(e, p) ==
    IF signUpValidate(e, p).some
    THEN {CallReturned(Failure(signUpValidate(e, p).v))}
    ELSE {CallReturned(signUpResume(resp)) : resp \in SignupResponses}
         \cup {CallThrew(m) : m \in ThrownMessages}

\* const isButtonDisabled = isLoading || !email.trim() || !password || !confirmPassword
SignupButtonDisabled ==
    suIsLoading \/ trim(suEmail) = "" \/ suPassword = "" \/ suConfirmPassword = ""

\* The three inputs, each editable={!isLoading}.
SignupSetEmail(e) ==
    /\ ~suIsLoading
    /\ e # suEmail
    /\ suEmail' = e
    /\ UNCHANGED <<suPassword, suConfirmPassword, suIsLoading, suError, suInFlight,
                   suSubmitted, suCall, suOutcome,
                   loginVars, articleVars, rootVars, feedVars, gatewayVars, normVars>>

SignupSetPassword(p) ==
    /\ ~suIsLoading
    /\ p # suPassword
    /\ suPassword' = p
    /\ UNCHANGED <<suEmail, suConfirmPassword, suIsLoading, suError, suInFlight,
                   suSubmitted, suCall, suOutcome,
                   loginVars, articleVars, rootVars, feedVars, gatewayVars, normVars>>

SignupSetConfirmPassword(c) ==
    /\ ~suIsLoading
    /\ c # suConfirmPassword
    /\ suConfirmPassword' = c
    /\ UNCHANGED <<suEmail, suPassword, suIsLoading, suError, suInFlight,
                   suSubmitted, suCall, suOutcome,
                   loginVars, articleVars, rootVars, feedVars, gatewayVars, normVars>>

\* A press of the signup button: handleSignup up to its early return, or up
\* to its await.
HandleSignup ==
    /\ ~SignupButtonDisabled
    /\ suSubmitted' = Some([email |-> suEmail, password |-> suPassword,
                            confirmPassword |-> suConfirmPassword])
    /\ IF validateForm(suEmail, suPassword, suConfirmPassword).some
       THEN /\ suError' = validateForm(suEmail, suPassword, suConfirmPassword)
            /\ UNCHANGED <<suIsLoading, suInFlight, suCall, suOutcome>>
       ELSE /\ suError' = Null
            /\ suIsLoading' = TRUE
            /\ suInFlight' = suInFlight + 1
            /\ suCall' = Some([email |-> suEmail, password |-> suPassword])
            /\ suOutcome' = Null
    /\ UNCHANGED <<suEmail, suPassword, suConfirmPassword,
                   loginVars, articleVars, rootVars, feedVars, gatewayVars, normVars>>

\* handleSignup after the await, when signUp returned a Result.
SignUpReturns(res) ==
    /\ suInFlight > 0
    /\ CallReturned(res) \in SignUpOutcomes(suCall.v.email, suCall.v.password)
    /\ suError' = IF res.error.some THEN Some(res.error.v.message) ELSE suError
    /\ suIsLoading' = FALSE
    /\ suInFlight' = suInFlight - 1
    /\ suOutcome' = Some(CallReturned(res))
    /\ UNCHANGED <<suEmail, suPassword, suConfirmPassword, suSubmitted, suCall,
                   loginVars, articleVars, rootVars, feedVars, gatewayVars, normVars>>

\* handleSignup when signUp threw: the catch block, then the finally block.
SignUpRejects(m) ==
    /\ suInFlight > 0
    /\ CallThrew(m) \in SignUpOutcomes(suCall.v.email, suCall.v.password)
    /\ suError' = Some(UnableToConnect)
    /\ suIsLoading' = FALSE
    /\ suInFlight' = suInFlight - 1
    /\ suOutcome' = Some(CallThrew(m))
    /\ UNCHANGED <<suEmail, suPassword, suConfirmPassword, suSubmitted, suCall,
                   loginVars, articleVars, rootVars, feedVars, gatewayVars, normVars>>

SignUpResults ==
    UNION {{o.result : o \in {x \in SignUpOutcomes(e, p) : x.kind = "returned"}} :
             e \in SignupEmails, p \in SignupPasswords}

NextSignup ==
    \/ \E e \in SignupEmails : SignupSetEmail(e)
    \/ \E p \in SignupPasswords : SignupSetPassword(p)
    \/ \E c \in SignupPasswords : SignupSetConfirmPassword(c)
    \/ HandleSignup
    \/ \E res \in SignUpResults : SignUpReturns(res)
    \/ \E m \in ThrownMessages : SignUpRejects(m)

SpecSignup == Init /\ [][NextSignup]_vars

(***************************************************************************)
(* ArticleScreen: loadArticle, split at its await of fetchArticleById, the *)
(* screen's three renderings, and handleReadFullArticle, split at its      *)
(* awaits of Linking.canOpenURL and Linking.openURL.                       *)
(***************************************************************************)
MaxArticleLoads == 3
MaxLinkPresses == 2

\* const { articleId } = route.params
RouteArticleId == "test-article-123"

\* An article whose externalUrl is empty, next to the mapped rows.
ArticleWithoutUrl ==
    [id |-> "3", title |-> "Third Article", summary |-> "Summary 3",
     tags |-> <<>>, externalUrl |-> "", createdAt |-> "2024-01-13T10:00:00Z"]

\* fetchArticleById(id) -> Result<Article, ArticleError>: an article, or an
\* error of the article error table, not_found among them.
FetchArticleByIdResults ==
    {Success(a) : a \in {mapRow(Row1), mapRow(Row2), ArticleWithoutUrl}}
    \cup {Failure(normalizeArticleError(e)) : e \in GatewayArticleErrors}
    \cup {Failure(ArticleErr("not_found", "Article not found."))}

\* isLoading ? renderLoading() : error ? renderError() : renderArticle()
ArticleRendered ==
    IF asIsLoading THEN "loading"
    ELSE IF asError.some /\ asError.v # "" THEN "error"
    ELSE IF asArticle.some THEN "article"
    ELSE "empty"

\* loadArticle up to its await.
LoadArticleStart ==
    /\ Len(asFetchCalls) < MaxArticleLoads
    /\ asIsLoading' = TRUE
    /\ asError' = Null
    /\ asInFlight' = asInFlight + 1
    /\ asFetchCalls' = Append(asFetchCalls, RouteArticleId)
    /\ UNCHANGED <<asArticle, asOutcome, asLinkVars,
                   loginVars, signupVars, rootVars, feedVars, gatewayVars, normVars>>

\* useEffect(() => { loadArticle(); }, [loadArticle]) on mount.
ArticleMountEffect ==
    /\ asFetchCalls = <<>>
    /\ LoadArticleStart

\* The Try Again button of the error rendering.
ArticleTryAgain ==
    /\ ArticleRendered = "error"
    /\ LoadArticleStart

\* loadArticle after the await, when fetchArticleById returned a Result.
LoadArticleReturns(res) ==
    /\ asInFlight > 0
    /\ IF res.error.some
       THEN asError' = Some(res.error.v.message) /\ asArticle' = Null
       ELSE asArticle' = res.data /\ asError' = asError
    /\ asIsLoading' = FALSE
    /\ asInFlight' = asInFlight - 1
    /\ asOutcome' = Some(CallReturned(res))
    /\ UNCHANGED <<asFetchCalls, asLinkVars,
                   loginVars, signupVars, rootVars, feedVars, gatewayVars, normVars>>

\* loadArticle when fetchArticleById threw, without its finally block.
LoadArticleRejects_NoFinally(m) ==
    /\ asInFlight > 0
    /\ asError' = Some(UnableToConnect)
    /\ asArticle' = Null
    /\ asInFlight' = asInFlight - 1
    /\ asOutcome' = Some(CallThrew(m))
    /\ UNCHANGED <<asIsLoading, asFetchCalls, asLinkVars,
                   loginVars, signupVars, rootVars, feedVars, gatewayVars, normVars>>

\* loadArticle when fetchArticleById threw: the catch block, then finally.
LoadArticleRejects(m) ==
    /\ asInFlight > 0
    /\ asError' = Some(UnableToConnect)
    /\ asArticle' = Null
    /\ asIsLoading' = FALSE
    /\ asInFlight' = asInFlight - 1
    /\ asOutcome' = Some(CallThrew(m))
    /\ UNCHANGED <<asFetchCalls, asLinkVars,
                   loginVars, signupVars, rootVars, feedVars, gatewayVars, normVars>>

LinkCall(run, fn, url) == [run |-> run, fn |-> fn, url |-> url]
LinkAlert(run, title, message) ==
    [run |-> run, title |-> title, message |-> message, buttons |-> <<"OK">>]
LinkRun(at, canOpen, threw) == [pc |-> at, canOpen |-> canOpen, threw |-> threw]

\* A press of Read Full Article: handleReadFullArticle up to its early
\* return, or up to its await of canOpenURL. The button is part of the
\* article rendering and stays enabled while earlier presses are pending.
HandleReadFullArticle ==
    /\ ArticleRendered = "article"
    /\ Len(asLink) < MaxLinkPresses
    /\ IF asArticle.v.externalUrl = ""
       THEN /\ asLink' = Append(asLink, LinkRun("done", Null, FALSE))
            /\ UNCHANGED asLinkCalls
       ELSE /\ asLink' = Append(asLink, LinkRun("canOpenURL", Null, FALSE))
            /\ asLinkCalls' = Append(asLinkCalls,
                   LinkCall(Len(asLink) + 1, "canOpenURL", asArticle.v.externalUrl))
    /\ UNCHANGED <<asAlert, asLoadVars,
                   loginVars, signupVars, rootVars, feedVars, gatewayVars, normVars>>

\* The handler after canOpenURL returned, opening the URL whatever it said.
CanOpenURLReturns_OpensAnyway(i, canOpen) ==
    /\ i \in DOMAIN asLink
    /\ asLink[i].pc = "canOpenURL"
    /\ asLink' = [asLink EXCEPT ![i] = LinkRun("openURL", Some(canOpen), FALSE)]
    /\ asLinkCalls' = Append(asLinkCalls, LinkCall(i, "openURL", asArticle.v.externalUrl))
    /\ UNCHANGED <<asAlert, asLoadVars,
                   loginVars, signupVars, rootVars, feedVars, gatewayVars, normVars>>

\* The handler after canOpenURL returned: openURL up to its await, or the
\* Unable to Open alert.
CanOpenURLReturns(i, canOpen) ==
    /\ i \in DOMAIN asLink
    /\ asLink[i].pc = "canOpenURL"
    /\ IF canOpen
       THEN /\ asLink' = [asLink EXCEPT ![i] = LinkRun("openURL", Some(TRUE), FALSE)]
            /\ asLinkCalls' = Append(asLinkCalls,
                   LinkCall(i, "openURL", asArticle.v.externalUrl))
            /\ UNCHANGED asAlert
       ELSE /\ asLink' = [asLink EXCEPT ![i] = LinkRun("done", Some(FALSE), FALSE)]
            /\ asAlert' = Append(asAlert, LinkAlert(i, "Unable to Open",
                   "Cannot open this link. The URL may be invalid."))
            /\ UNCHANGED asLinkCalls
    /\ UNCHANGED <<asLoadVars,
                   loginVars, signupVars, rootVars, feedVars, gatewayVars, normVars>>

\* The handler after openURL returned.
OpenURLReturns(i) ==
    /\ i \in DOMAIN asLink
    /\ asLink[i].pc = "openURL"
    /\ asLink' = [asLink EXCEPT ![i].pc = "done"]
    /\ UNCHANGED <<asLinkCalls, asAlert, asLoadVars,
                   loginVars, signupVars, rootVars, feedVars, gatewayVars, normVars>>

\* The handler's catch block, when canOpenURL or openURL threw.
LinkingThrows(i) ==
    /\ i \in DOMAIN asLink
    /\ asLink[i].pc \in {"canOpenURL", "openURL"}
    /\ asLink' = [asLink EXCEPT ![i].pc = "done", ![i].threw = TRUE]
    /\ asAlert' = Append(asAlert, LinkAlert(i, "Error", "Failed to open the article link."))
    /\ UNCHANGED <<asLinkCalls, asLoadVars,
                   loginVars, signupVars, rootVars, feedVars, gatewayVars, normVars>>

NextArticle ==
    \/ ArticleMountEffect
    \/ ArticleTryAgain
    \/ \E res \in FetchArticleByIdResults : LoadArticleReturns(res)
    \/ \E m \in ThrownMessages : LoadArticleRejects(m)
    \/ HandleReadFullArticle
    \/ \E i \in 1..MaxLinkPresses : \E canOpen \in BOOLEAN : CanOpenURLReturns(i, canOpen)
    \/ \E i \in 1..MaxLinkPresses : OpenURLReturns(i)
    \/ \E i \in 1..MaxLinkPresses : LinkingThrows(i)

SpecArticle == Init /\ [][NextArticle]_vars

(***************************************************************************)
(* Properties.                                                             *)
(***************************************************************************)
\* Stated without the services' own helpers.
HasChar(s, c) == \E i \in 1..Len(s) : SubSeq(s, i, i) = c
PassesEmailCheck(e) == e # "" /\ HasChar(e, "@")
Returned == pc = "returned"
ReturnedError(code) ==
    /\ pc = "returned"
    /\ result.error.some
    /\ ~result.data.some
    /\ result.error.v.code = code

\* C1 (as stated): every returned result has exactly one of data / error
\* non-null, on every path of every operation.
C1_ExactlyOneSlot ==
    Returned => (result.data.some # result.error.some)

\* C1 (amended): no result has both slots non-null; signUp, signIn,
\* getCurrentUser and fetchArticles return exactly one slot non-null; signOut
\* returns data null on every path, and its error is non-null exactly when the
\* backend reported an error (its success is data null and error null).
C1_SlotsAmended ==
    Returned =>
        /\ ~(result.data.some /\ result.error.some)
        /\ op # "signOut" => (result.data.some # result.error.some)
        /\ op = "signOut" =>
              /\ ~result.data.some
              /\ result.error.some <=> response.v.error.some

C1_Witness ==
    /\ Returned
    /\ op = "signOut"
    /\ ~response.v.error.some
    /\ ~result.data.some
    /\ ~result.error.some

\* C2: when the backend call itself throws, the operation does not raise; it
\* returns a Result whose error has code network_error.
C2_RejectionIsNetworkError ==
    (response.some /\ response.v.kind = "rejected") => ReturnedError("network_error")

\* C3: signUp and signIn with an email that is empty or has no '@' return
\* invalid_email whatever the password is, and never invoke the backend.
C3_InvalidEmailFirst ==
    (op \in {"signUp", "signIn"} /\ ~PassesEmailCheck(email)) =>
        /\ ReturnedError("invalid_email")
        /\ backendCalls = <<>>

C3_Witness ==
    /\ op = "signUp"
    /\ email # ""
    /\ ~HasChar(email, "@")
    /\ Len(password) >= 6
    /\ ReturnedError("invalid_email")
    /\ backendCalls = <<>>

\* C4: signUp with an email that passes the email check and a password that is
\* empty or shorter than 6 characters returns invalid_password and never
\* invokes the backend; with 6 or more characters it invokes auth.signUp.
C4_SignUpPasswordLength ==
    (op = "signUp" /\ PassesEmailCheck(email)) =>
        IF Len(password) < 6
        THEN ReturnedError("invalid_password") /\ backendCalls = <<>>
        ELSE Len(backendCalls) = 1 /\ backendCalls[1].fn = "auth.signUp"

C4_Witness ==
    /\ op = "signUp"
    /\ PassesEmailCheck(email)
    /\ Len(password) = 5
    /\ ReturnedError("invalid_password")
    /\ backendCalls = <<>>

\* C5: signIn checks the password for presence only: an empty password returns
\* invalid_password with 'Please enter your password.' and no backend call; any
\* non-empty password, also one shorter than 6, is submitted to the backend.
C5_SignInPasswordPresence ==
    (op = "signIn" /\ PassesEmailCheck(email)) =>
        IF password = ""
        THEN /\ ReturnedError("invalid_password")
             /\ result.error.v.message = "Please enter your password."
             /\ backendCalls = <<>>
        ELSE /\ Len(backendCalls) = 1
             /\ backendCalls[1].fn = "auth.signInWithPassword"
             /\ backendCalls[1].password = password

C5_Witness ==
    /\ op = "signIn"
    /\ PassesEmailCheck(email)
    /\ Len(password) \in 1..5
    /\ Len(backendCalls) = 1
    /\ backendCalls[1].password = password

\* C6: whenever signUp or signIn invokes the backend, the email submitted is
\* the caller's email without its surrounding whitespace and with every
\* upper-case letter replaced by its lower-case letter, and the password is
\* submitted unchanged.
C6_EmailNormalized ==
    (op \in {"signUp", "signIn"} /\ backendCalls # <<>>) =>
        LET sent  == backendCalls[1].email
            white == {" ", "\t", "\n"}
            lowerOf(c, d) ==
                \/ d = c /\ ~HasChar(UpperCase, c)
                \/ \E n \in 1..Len(UpperCase) :
                      SubSeq(UpperCase, n, n) = c /\ SubSeq(LowerCase, n, n) = d
        IN  /\ backendCalls[1].password = password
            /\ \A i \in 1..Len(sent) : ~HasChar(UpperCase, SubSeq(sent, i, i))
            /\ sent # "" => /\ SubSeq(sent, 1, 1) \notin white
                            /\ SubSeq(sent, Len(sent), Len(sent)) \notin white
            /\ \E lead \in 0..Len(email) :
                  /\ lead + Len(sent) <= Len(email)
                  /\ \A i \in 1..lead : SubSeq(email, i, i) \in white
                  /\ \A i \in (lead + Len(sent) + 1)..Len(email) :
                        SubSeq(email, i, i) \in white
                  /\ \A i \in 1..Len(sent) :
                        lowerOf(SubSeq(email, lead + i, lead + i), SubSeq(sent, i, i))

C6_Witness ==
    /\ op = "signUp"
    /\ email = "  TEST@EXAMPLE.COM  "
    /\ Len(backendCalls) = 1
    /\ backendCalls[1].email = "test@example.com"
    /\ backendCalls[1].password = password

\* The ordered match table of the auth normaliser, row by row, on a
\* lower-cased message and an optional status.
AuthTableCodes ==
    <<"invalid_email", "invalid_password", "email_taken", "user_not_found",
      "wrong_password", "too_many_requests", "network_error", "unknown_error">>

AuthRowMatches(row, lowered, status) ==
    LET has(phrase) == includes(lowered, phrase) IN
    CASE row = 1 -> has("invalid email") \/ has("valid email")
      [] row = 2 -> has("password") /\ (has("least") \/ has("short") \/ has("weak"))
      [] row = 3 -> has("already registered") \/ has("already exists") \/ has("duplicate")
      [] row = 4 -> has("user not found") \/ has("no user")
      [] row = 5 -> has("invalid login") \/ has("invalid credentials") \/ has("wrong password")
      [] row = 6 -> has("rate limit") \/ has("too many") \/ status = Some(429)
      [] row = 7 -> has("network") \/ has("fetch") \/ has("connection")
      [] OTHER   -> TRUE

\* The first row, from row on, that matches.
RECURSIVE AuthFirstRowFrom(_, _, _)
AuthFirstRowFrom(row, lowered, status) ==
    IF AuthRowMatches(row, lowered, status) THEN row
    ELSE AuthFirstRowFrom(row + 1, lowered, status)

\* The first row that matches message m whatever its letter case.
AuthFirstRow(m, status) == AuthFirstRowFrom(1, toLowerCase(m), status)

NormalizedAuth == normPc = "done" /\ normKind = "auth"

\* C7: the normalised code of a backend auth error is that of the first
\* matching row of the ordered table, matched case-insensitively; the listed
\* messages get the listed codes.
C7_FirstMatchingRow ==
    NormalizedAuth =>
        /\ normOut.code = AuthTableCodes[AuthFirstRow(normErr.message, normErr.status)]
        /\ normErr.message = "User already registered" => normOut.code = "email_taken"
        /\ normErr.message = "duplicate key value violates unique constraint"
              => normOut.code = "email_taken"
        /\ normErr.message = "Invalid login credentials" => normOut.code = "wrong_password"
        /\ normErr.message = "FetchError: request failed" /\ normErr.status # Some(429)
              => normOut.code = "network_error"

C7_Witness ==
    /\ NormalizedAuth
    /\ normErr.message = "rate limit: invalid email"
    /\ AuthRowMatches(1, normErr.message, normErr.status)
    /\ AuthRowMatches(6, normErr.message, normErr.status)
    /\ normOut.code = "invalid_email"

\* C8 (as stated): a backend auth error with status 429 is classified
\* too_many_requests whatever its message is.
C8_Status429Always ==
    (NormalizedAuth /\ normErr.status = Some(429)) => normOut.code = "too_many_requests"

\* C8 (amended): a backend auth error with status 429 is classified
\* too_many_requests unless its message matches one of the five earlier rows
\* (invalid_email, invalid_password, email_taken, user_not_found,
\* wrong_password); then it gets the code of the first of those rows.
C8_Status429Amended ==
    (NormalizedAuth /\ normErr.status = Some(429)) =>
        IF AuthFirstRow(normErr.message, normErr.status) < 6
        THEN /\ normOut.code = AuthTableCodes[AuthFirstRow(normErr.message, normErr.status)]
             /\ normOut.code # "too_many_requests"
        ELSE normOut.code = "too_many_requests"

C8_Witness ==
    /\ NormalizedAuth
    /\ normErr.status = Some(429)
    /\ normErr.message = "Some weird error we never seen"
    /\ normOut.code = "too_many_requests"

\* The fixed user-facing messages of the two normalisers.
AuthFixedMessages ==
    {"Please enter a valid email address.",
     "Password must be at least 6 characters long.",
     "An account with this email already exists.",
     "No account found with this email.",
     "Incorrect email or password.",
     "Too many attempts. Please wait a moment and try again.",
     "Unable to connect. Please check your internet connection.",
     "Something went wrong. Please try again."}

ArticleFixedMessages ==
    {"You do not have permission to view these articles.",
     "Article not found.",
     "Unable to load articles. Please check your internet connection.",
     "Unable to load articles. Please try again."}

ArticleUnrecognized(error) ==
    LET lowered == toLowerCase(error.message)
        has(phrase) == includes(lowered, phrase)
        code == IF error.code.some THEN toLowerCase(error.code.v) ELSE ""
    IN  /\ ~\E phrase \in {"permission denied", "row-level security", "not found",
                           "network", "fetch", "connection", "timeout"} : has(phrase)
        /\ code \notin {"42501", "pgrst301", "pgrst116"}

\* C9: for every gateway operation, an error normalised from a backend error
\* carries one of a fixed finite set of messages; two backend errors
\* classified to the same code yield the same message; an unrecognised
\* backend message yields unknown_error with the gateway's fixed fallback
\* text, whatever its content.
C9_RawTextNeverSurfaces ==
    ReturnedBackendError =>
        LET raw == response.v.error.v
            err == result.error.v
        IN  /\ ~result.data.some
            /\ Gateway(op) = "auth" =>
                  /\ err.message \in AuthFixedMessages
                  /\ AuthFirstRow(raw.message, raw.status) = 8 =>
                        /\ err.code = "unknown_error"
                        /\ err.message = "Something went wrong. Please try again."
            /\ Gateway(op) = "articles" =>
                  /\ err.message \in ArticleFixedMessages
                  /\ ArticleUnrecognized(raw) =>
                        /\ err.code = "unknown_error"
                        /\ err.message = "Unable to load articles. Please try again."
            /\ (prev.some /\ prev.origin = "backend" /\ prev.gateway = Gateway(op)
                  /\ prev.code = err.code) => prev.message = err.message

C9_Witness ==
    /\ ReturnedBackendError
    /\ Gateway(op) = "auth"
    /\ result.error.v.code = "unknown_error"
    /\ result.error.v.message = "Something went wrong. Please try again."
    /\ prev.some
    /\ prev.origin = "backend"
    /\ prev.gateway = "auth"
    /\ prev.code = "unknown_error"
    /\ prev.raw # response.v.error.v.message

ReturnedAuthError == pc = "returned" /\ Gateway(op) = "auth" /\ result.error.some

\* C10 (as stated): any two AuthError values with the same code, from any
\* AuthGateway operation, carry the same message.
C10_OneMessagePerCode ==
    (ReturnedAuthError /\ prev.some /\ prev.gateway = "auth"
        /\ prev.code = result.error.v.code) => prev.message = result.error.v.message

\* C10 (amended): two AuthError values with the same code carry the same
\* message, except for invalid_password and unknown_error, whose message is
\* fixed per origin: 'Password must be at least 6 characters long.' from
\* signUp's check and from normalisation but 'Please enter your password.'
\* from signIn's check; 'Something went wrong. Please try again.' from
\* normalisation but 'Account created but user data unavailable.' from signUp
\* and 'Sign in succeeded but user data unavailable.' from signIn when the
\* backend sends no user.
C10_MessagePerCodeAmended ==
    (ReturnedAuthError /\ prev.some /\ prev.gateway = "auth"
        /\ prev.code = result.error.v.code) =>
        LET err == result.error.v IN
        /\ (err.code \notin {"invalid_password", "unknown_error"}
              \/ prev.origin = ErrorOrigin) => prev.message = err.message
        /\ err.code = "invalid_password" =>
              err.message = IF ErrorOrigin = "signIn"
                            THEN "Please enter your password."
                            ELSE "Password must be at least 6 characters long."
        /\ err.code = "unknown_error" =>
              err.message = CASE ErrorOrigin = "signUp" ->
                                    "Account created but user data unavailable."
                              [] ErrorOrigin = "signIn" ->
                                    "Sign in succeeded but user data unavailable."
                              [] OTHER -> "Something went wrong. Please try again."

C10_Witness ==
    /\ ReturnedAuthError
    /\ op = "signIn"
    /\ ErrorOrigin = "signIn"
    /\ result.error.v.code = "invalid_email"
    /\ prev.some
    /\ prev.origin = "signUp"
    /\ prev.code = "invalid_email"
    /\ prev.message = result.error.v.message

ReturnedFrom(o) ==
    pc = "returned" /\ op = o /\ response.some /\ response.v.kind = "resolved"

\* C11: getCurrentUser turns a backend error whose message contains 'session'
\* or 'not authenticated' (in any letter case) into a success with user null;
\* any other backend error into the normalised AuthError with data null
\* ('Network request failed' gives network_error); and no error into a
\* success carrying the backend's user unchanged.
C11_GetCurrentUser ==
    ReturnedFrom("getCurrentUser") =>
        LET resp == response.v
            lowered == IF resp.error.some THEN toLowerCase(resp.error.v.message) ELSE ""
        IN  IF ~resp.error.some
            THEN result = [data |-> Some([user |-> resp.user]), error |-> Null]
            ELSE IF includes(lowered, "session") \/ includes(lowered, "not authenticated")
            THEN result = [data |-> Some([user |-> Null]), error |-> Null]
            ELSE /\ ~result.data.some
                 /\ result.error.some
                 /\ result.error.v.code =
                        AuthTableCodes[AuthFirstRow(resp.error.v.message, resp.error.v.status)]
                 /\ resp.error.v = [message |-> "Network request failed", status |-> Null]
                       => result.error.v.code = "network_error"

C11_Witness ==
    /\ ReturnedFrom("getCurrentUser")
    /\ response.v.error.some
    /\ response.v.error.v.message = "JWT Session Expired"
    /\ result = [data |-> Some([user |-> Null]), error |-> Null]

\* C12: on backend success fetchArticles returns as many articles as the
\* backend sent rows, in the same order, element i carrying row i's id, title
\* and summary, its external_url as externalUrl, its created_at as createdAt,
\* and its tags, or the empty sequence when row i's tags is null.
C12_RowsMappedOneToOne ==
    (ReturnedFrom("fetchArticles") /\ ~response.v.error.some /\ response.v.data.some) =>
        LET rows == response.v.data.v IN
        /\ result.data.some
        /\ ~result.error.some
        /\ Len(result.data.v) = Len(rows)
        /\ \A i \in 1..Len(rows) :
              LET a == result.data.v[i]
                  r == rows[i]
              IN  /\ DOMAIN a = {"id", "title", "summary", "tags", "externalUrl", "createdAt"}
                  /\ a.id = r.id
                  /\ a.title = r.title
                  /\ a.summary = r.summary
                  /\ a.externalUrl = r.external_url
                  /\ a.createdAt = r.created_at
                  /\ a.tags = IF r.tags.some THEN r.tags.v ELSE <<>>

C12_Witness ==
    /\ ReturnedFrom("fetchArticles")
    /\ ~response.v.error.some
    /\ response.v.data = Some(<<Row1, Row2>>)
    /\ Len(result.data.v) = 2
    /\ result.data.v[1].id = "1"
    /\ result.data.v[2].externalUrl = "https://x"
    /\ result.data.v[2].tags = <<>>

\* C13: an empty or null backend result set without an error is a success:
\* data is the empty sequence and error is null.
C13_EmptyIsSuccess ==
    (ReturnedFrom("fetchArticles") /\ ~response.v.error.some
        /\ (~response.v.data.some \/ response.v.data = Some(<<>>))) =>
        /\ result.data.some
        /\ result.data.v = <<>>
        /\ ~result.error.some

C13_Witness ==
    /\ ReturnedFrom("fetchArticles")
    /\ ~response.v.error.some
    /\ ~response.v.data.some
    /\ result.data = Some(<<>>)
    /\ ~result.error.some

ArticleTableCodes == <<"permission_denied", "not_found", "network_error", "unknown_error">>

\* Whether row `row` of the article table matches a lower-cased message and
\* lower-cased backend code ("" when the error has none).
ArticleRowMatches(row, lowered, code) ==
    CASE row = 1 -> \/ includes(lowered, "permission denied")
                    \/ includes(lowered, "row-level security")
                    \/ code \in {"42501", "pgrst301"}
      [] row = 2 -> includes(lowered, "not found") \/ code = "pgrst116"
      [] row = 3 -> \E phrase \in {"network", "fetch", "connection", "timeout"} :
                        includes(lowered, phrase)
      [] OTHER   -> TRUE

ArticleFirstRow(error) ==
    LET lowered == toLowerCase(error.message)
        code == IF error.code.some THEN toLowerCase(error.code.v) ELSE ""
    IN  CHOOSE row \in 1..4 :
            /\ ArticleRowMatches(row, lowered, code)
            /\ \A earlier \in 1..(row - 1) : ~ArticleRowMatches(earlier, lowered, code)

\* C14: for every backend article error fetchArticles returns the code of the
\* first matching row of the ordered table permission_denied, not_found,
\* network_error, unknown_error (phrases and codes matched in any letter
\* case), and the result's data is null.
C14_ArticleFirstMatchingRow ==
    (ReturnedFrom("fetchArticles") /\ response.v.error.some) =>
        /\ ~result.data.some
        /\ result.error.some
        /\ result.error.v.code = ArticleTableCodes[ArticleFirstRow(response.v.error.v)]

C14_Witness ==
    /\ ReturnedFrom("fetchArticles")
    /\ response.v.error = Some([message |-> "permission denied: not found", code |-> Some("pgrst116")])
    /\ result.error.some
    /\ result.error.v.code = "permission_denied"
    /\ ~result.data.some

\* C15: every call of fetchArticles queries table 'articles' with the
\* projection 'id, title, summary, tags, external_url, created_at' ordered by
\* created_at descending, and the returned articles are in the order in which
\* the backend returned the rows.
C15_QueryAndOrder ==
    op = "fetchArticles" =>
        /\ backendCalls =
              <<[fn |-> "from.select.order", table |-> "articles",
                 columns |-> "id, title, summary, tags, external_url, created_at",
                 orderBy |-> "created_at", ascending |-> FALSE]>>
        /\ (ReturnedFrom("fetchArticles") /\ result.data.some /\ response.v.data.some) =>
              /\ Len(result.data.v) = Len(response.v.data.v)
              /\ \A i \in 1..Len(result.data.v) :
                    result.data.v[i].id = response.v.data.v[i].id

C15_Witness ==
    /\ ReturnedFrom("fetchArticles")
    /\ Len(backendCalls) = 1
    /\ backendCalls[1].ascending = FALSE
    /\ response.v.data = Some(<<Row2, Row1>>)
    /\ result.data.some
    /\ result.data.v[1].id = "2"
    /\ result.data.v[2].id = "1"

\* Whether the arguments of the call in progress pass the operation's
\* client-side checks.
PreconditionsPass ==
    CASE op = "signUp" -> PassesEmailCheck(email) /\ Len(password) >= 6
      [] op = "signIn" -> PassesEmailCheck(email) /\ Len(password) >= 1
      [] OTHER -> TRUE

\* C16: no gateway operation retries: a call has asked the backend at most
\* once at any moment, exactly once when its client-side preconditions pass
\* and never when they fail, whatever the backend answered.
C16_NoRetry ==
    op # "none" =>
        /\ Len(backendCalls) <= 1
        /\ Len(backendCalls) = (IF PreconditionsPass THEN 1 ELSE 0)

C16_Witness ==
    /\ ReturnedBackendError
    /\ op = "signOut"
    /\ Len(backendCalls) = 1

\* Whether a backend error's text speaks of a missing session.
IndicatesMissingSession(error) == includes(toLowerCase(error.message), "session")

\* C17: the 'no session' exemption is getCurrentUser's alone: signOut, signUp
\* and signIn answer a backend error about a missing session with a
\* normalised AuthError (data null, error non-null).
C17_SessionExemptionOnlyGetCurrentUser ==
    (/\ pc = "returned"
     /\ op \in {"signOut", "signUp", "signIn"}
     /\ response.some
     /\ response.v.kind = "resolved"
     /\ response.v.error.some
     /\ IndicatesMissingSession(response.v.error.v)) =>
        /\ ~result.data.some
        /\ result.error.some
        /\ result.error.v.code =
               AuthTableCodes[AuthFirstRow(response.v.error.v.message,
                                           response.v.error.v.status)]

C17_Witness ==
    /\ ReturnedFrom("signOut")
    /\ response.v.error.some
    /\ response.v.error.v.message = "Auth session missing!"
    /\ ~result.data.some
    /\ result.error.some

\* C18: signUp and signIn never return a success without a user: no error
\* and no user from the backend gives unknown_error (signUp's message being
\* 'Account created but user data unavailable'), and a backend error is
\* returned normalised even when the backend also sent a user.
C18_NoSuccessWithoutUser ==
    (pc = "returned" /\ op \in {"signUp", "signIn"}) =>
        /\ result.data.some => result.data.v.user.some
        /\ (response.some /\ response.v.kind = "resolved") =>
              /\ (~response.v.error.some /\ ~response.v.user.some) =>
                    /\ ReturnedError("unknown_error")
                    /\ op = "signUp" =>
                          includes(result.error.v.message,
                                   "Account created but user data unavailable")
              /\ response.v.error.some =>
                    /\ ~result.data.some
                    /\ result.error.some
                    /\ result.error.v.code =
                           AuthTableCodes[AuthFirstRow(response.v.error.v.message,
                                                       response.v.error.v.status)]

C18_Witness ==
    /\ ReturnedFrom("signUp")
    /\ response.v.error.some
    /\ response.v.user.some
    /\ ~result.data.some
    /\ result.error.some
    /\ result.error.v.code = "email_taken"

C20_RejectedLoadShowsError ==
    fsLoad = "rejected" =>
        /\ ~fsIsLoading
        /\ ~fsIsRefreshing
        /\ fsError = Some("Unable to connect. Please check your internet connection.")
        /\ FeedRendered = "error"

\* C21: when signOut rejects in FeedScreen, the 'Sign Out Failed' alert is
\* shown with 'Unable to connect. Please check your internet connection.'
\* and the sign-out button is enabled again.
C21_RejectedSignOutShowsAlert ==
    fsSignOut = "rejected" =>
        /\ ~fsIsSigningOut
        /\ fsAlert = Some([title |-> "Sign Out Failed",
                           message |-> "Unable to connect. Please check your internet connection.",
                           buttons |-> <<"OK">>])

\* C22: at most one signOut call of FeedScreen is pending at any time and the
\* button is disabled while it is; a call that returns an error result puts
\* up the alert with that error's message and enables the button again, so
\* that a later press can start a new call.
C22_OneSignOutInFlight ==
    [][/\ fsSignOutsInFlight' <= 1
       /\ fsSignOutsInFlight' = 1 => fsIsSigningOut'
       /\ (/\ fsSignOutsInFlight' < fsSignOutsInFlight
           /\ fsSignOut' = "done"
           /\ fsSignOutResult'.v.error.some) =>
              /\ fsAlert' = Some([title |-> "Sign Out Failed",
                                  message |-> fsSignOutResult'.v.error.v.message,
                                  buttons |-> <<"OK">>])
              /\ ~fsIsSigningOut'
              /\ fsSignOutsInFlight' = 0]_vars

C22_Witness ==
    /\ fsSignOutsInFlight = 1
    /\ fsIsSigningOut
    /\ fsSignOutResult.some
    /\ fsSignOutResult.v.error.some
    /\ fsAlert.some
    /\ fsAlert.v.message = fsSignOutResult.v.error.v.message

\* C23: whenever no load of FeedScreen is in flight, the screen shows the
\* last completed load alone: its message and no articles when it returned
\* an error, its data and no error when it succeeded.  An error on screen
\* always comes with an empty article list.
C23_StateReflectsLastLoad ==
    /\ (fsLoad \in {"done", "rejected"} /\ fsLastCompleted.some) =>
          IF fsLastCompleted.v.error.some
          THEN /\ fsError = Some(fsLastCompleted.v.error.v.message)
               /\ fsArticles = <<>>
          ELSE /\ ~fsError.some
               /\ fsArticles = fsLastCompleted.v.data.v
    /\ fsError.some => fsArticles = <<>>

\* C24: the loading state of RootNavigator ends whatever the session check's
\* outcome: when getSession resolves the user becomes the session's user or
\* null, when it throws the user becomes null, in both cases isLoading
\* becomes false; isLoading never becomes true again; and the loading screen
\* is eventually replaced by AuthNavigator or AppNavigator.
C24_LoadingEnds ==
    /\ [][/\ (rnCheck = "pending" /\ rnCheck' = "resolved") =>
                /\ ~rnIsLoading'
                /\ IF rnInitial'.v.some /\ rnInitial'.v.v.user.some
                   THEN rnUser' = rnInitial'.v.v.user
                   ELSE rnUser' = Null
          /\ (rnCheck = "pending" /\ rnCheck' = "threw") =>
                (~rnIsLoading' /\ rnUser' = Null)
          /\ ~rnIsLoading => ~rnIsLoading']_vars
    /\ <>(RootRendered \in {"AuthNavigator", "AppNavigator"})

C24_Witness ==
    /\ rnCheck = "threw"
    /\ rnEvents > 0
    /\ rnLastEvent.v.session.some
    /\ rnUser = Null
    /\ ~rnIsLoading
    /\ RootRendered = "AuthNavigator"

\* C25: once the session check's result and an auth state change event have
\* both been processed, the user state is that of the most recent event's
\* session, in whichever order the two arrived.
C25_UserIsLastEventsSession ==
    (rnCheck # "pending" /\ rnEvents > 0) =>
        rnUser = (IF rnLastEvent.v.session.some /\ rnLastEvent.v.session.v.user.some
                  THEN rnLastEvent.v.session.v.user
                  ELSE Null)

\* C26: in LoginScreen isLoading is true exactly while a signIn call is in
\* flight, and at most one is. A press of the login button happens only with
\* the button enabled (not loading, trimmed email and password non-empty),
\* clears the error and sets isLoading; when the call ends isLoading is false
\* again and the error is the returned error's message, the connection
\* message when signIn threw, and null when signIn returned success.
C26_LoadingWhileSignInInFlight ==
    [][/\ lgInFlight' <= 1
       /\ lgIsLoading' <=> (lgInFlight' = 1)
       /\ LoginButtonDisabled <=> (lgIsLoading \/ trim(lgEmail) = "" \/ lgPassword = "")
       /\ lgInFlight' > lgInFlight =>
             /\ ~lgIsLoading /\ trim(lgEmail) # "" /\ lgPassword # ""
             /\ lgError' = Null
             /\ lgIsLoading'
       /\ lgInFlight' < lgInFlight =>
             /\ ~lgIsLoading'
             /\ lgError' = IF lgOutcome'.v.kind = "threw" THEN Some(UnableToConnect)
                           ELSE IF lgOutcome'.v.result.error.some
                           THEN Some(lgOutcome'.v.result.error.v.message)
                           ELSE Null]_vars

C26_Witness ==
    /\ lgOutcome.some
    /\ lgOutcome.v.kind = "threw"
    /\ lgInFlight = 0
    /\ ~lgIsLoading
    /\ lgError = Some(UnableToConnect)

\* The rules of the signup form, in the order the claim gives them.
SignupEmailRuleFails(f) == trim(f.email) = "" \/ ~includes(f.email, "@")
SignupLengthRuleFails(f) == Len(f.password) < 6
SignupConfirmRuleFails(f) == f.password # f.confirmPassword
SignupFirstFailure(f) ==
    IF SignupEmailRuleFails(f) THEN "Please enter a valid email address."
    ELSE IF SignupLengthRuleFails(f) THEN "Password must be at least 6 characters."
    ELSE "Passwords do not match."
SignupRuleFails(f) ==
    SignupEmailRuleFails(f) \/ SignupLengthRuleFails(f) \/ SignupConfirmRuleFails(f)

\* C27: in SignupScreen a press of the button with a form that fails a rule
\* calls nothing and leaves isLoading false, and the error shown is the
\* message of the first failing rule in the order email, password length,
\* confirmation; a signUp call starts only from a form that passes all three
\* rules, with the form's email and password.
C27_FailedValidationCallsNothing ==
    [][/\ (suSubmitted' # suSubmitted /\ SignupRuleFails(suSubmitted'.v)) =>
             /\ suError' = Some(SignupFirstFailure(suSubmitted'.v))
             /\ suInFlight' = suInFlight
             /\ suCall' = suCall
             /\ ~suIsLoading'
       /\ (suInFlight' > suInFlight \/ suCall' # suCall) =>
             /\ ~SignupRuleFails([email |-> suEmail, password |-> suPassword,
                                  confirmPassword |-> suConfirmPassword])
             /\ suCall' = Some([email |-> suEmail, password |-> suPassword])]_vars

C27_Witness ==
    /\ suSubmitted.some
    /\ ~SignupEmailRuleFails(suSubmitted.v)
    /\ SignupLengthRuleFails(suSubmitted.v)
    /\ SignupConfirmRuleFails(suSubmitted.v)
    /\ suError = Some("Password must be at least 6 characters.")
    /\ suCall = Null
    /\ ~suIsLoading

\* C30: every (email, password) that passes SignupScreen's validateForm, with
\* any confirmation, passes signUp's own precondition checks; so a signUp
\* call made by SignupScreen is never answered by the gateway's local
\* invalid_email or invalid_password result: it submits its request to the
\* backend and ends with a Result built from the backend's response or with
\* the backend's rejection.
C30_FormValidationImpliesGatewayValidation ==
    /\ \A e \in SignupEmails : \A p, c \in SignupPasswords :
          validateForm(e, p, c) = Null => signUpValidate(e, p) = Null
    /\ suCall.some =>
          /\ validateForm(suCall.v.email, suCall.v.password, suCall.v.password) = Null
          /\ signUpValidate(suCall.v.email, suCall.v.password) = Null
          /\ suOutcome.some =>
                \/ suOutcome.v.kind = "threw"
                \/ \E resp \in SignupResponses : suOutcome.v.result = signUpResume(resp)

C30_Witness ==
    /\ suCall.some
    /\ suCall.v.email = " @ "
    /\ suOutcome.some
    /\ suOutcome.v.kind = "returned"
    /\ suOutcome.v.result.error.some
    /\ suOutcome.v.result.error.v.code = "invalid_email"

\* C28: in ArticleScreen every load starts on mount or from Try Again, which
\* is pressed only in the error rendering with no load in flight, and calls
\* fetchArticleById with the route's articleId; isLoading is true exactly
\* while the call is in flight. When the call ends isLoading is false and
\* exactly one of article and error is non-null: the returned article, or
\* the returned error's message, or the connection message when the call
\* threw, with article null in both error cases.
C28_LoadEndsWithArticleOrError ==
    [][/\ asInFlight' <= 1
       /\ asIsLoading' <=> (asInFlight' = 1)
       /\ Len(asFetchCalls') > Len(asFetchCalls) =>
             /\ asFetchCalls' = Append(asFetchCalls, RouteArticleId)
             /\ asInFlight = 0
             /\ \/ asFetchCalls = <<>>
                \/ ~asIsLoading /\ asError.some
       /\ asInFlight' < asInFlight =>
             /\ ~asIsLoading'
             /\ asArticle'.some # asError'.some
             /\ IF asOutcome'.v.kind = "threw"
                THEN asError' = Some(UnableToConnect) /\ asArticle' = Null
                ELSE IF asOutcome'.v.result.error.some
                THEN /\ asError' = Some(asOutcome'.v.result.error.v.message)
                     /\ asArticle' = Null
                ELSE asArticle' = asOutcome'.v.result.data /\ asError' = Null
       /\ (asInFlight' = 0 /\ asOutcome'.some) => asArticle'.some # asError'.some]_vars

C28_Witness ==
    /\ Len(asFetchCalls) = 2
    /\ asInFlight = 0
    /\ asOutcome.some
    /\ asOutcome.v.kind = "threw"
    /\ ~asIsLoading
    /\ asError = Some(UnableToConnect)
    /\ asArticle = Null

\* The Linking calls and the alerts of the i-th press of Read Full Article.
LinkCallsOf(i) == SelectSeq(asLinkCalls, LAMBDA c : c.run = i)
LinkAlertsOf(i) == SelectSeq(asAlert, LAMBDA a : a.run = i)

\* C29: for every press of Read Full Article: with no externalUrl neither
\* Linking call is made; otherwise the first call is canOpenURL with the
\* article's externalUrl, and openURL is called, with the same URL, only
\* after canOpenURL has returned true; when canOpenURL returned false the
\* press shows the Unable to Open alert and never calls openURL; when either
\* call threw the press shows the Error alert; no other alert is shown.
C29_OpenOnlyAfterCanOpen ==
    \A i \in DOMAIN asLink :
        LET url == asArticle.v.externalUrl
            run == asLink[i]
            calls == LinkCallsOf(i)
            alerts == LinkAlertsOf(i)
        IN
        /\ asArticle.some
        /\ url = "" => calls = <<>> /\ alerts = <<>> /\ run.pc = "done"
        /\ url # "" => Len(calls) >= 1 /\ calls[1] = LinkCall(i, "canOpenURL", url)
        /\ \A k \in DOMAIN calls : calls[k].fn = "openURL" =>
              /\ k = 2
              /\ calls[k].url = url
              /\ run.canOpen = Some(TRUE)
        /\ (run.pc = "openURL" \/ (run.canOpen = Some(TRUE) /\ ~run.threw)) => Len(calls) = 2
        /\ run.canOpen = Some(FALSE) =>
              /\ Len(calls) = 1
              /\ alerts = <<LinkAlert(i, "Unable to Open",
                                      "Cannot open this link. The URL may be invalid.")>>
        /\ run.threw =>
              alerts = <<LinkAlert(i, "Error", "Failed to open the article link.")>>
        /\ (~run.threw /\ run.canOpen # Some(FALSE)) => alerts = <<>>

C29_Witness ==
    /\ Len(asLink) = 2
    /\ asLink[1] = LinkRun("done", Some(FALSE), FALSE)
    /\ asLink[2] = LinkRun("done", Some(TRUE), TRUE)
    /\ Len(LinkCallsOf(1)) = 1
    /\ Len(LinkCallsOf(2)) = 2
    /\ Len(asAlert) = 2

====
